---- MODULE Spec2Model ----
(***************************************************************************)
(* Task / project management API.                                          *)
(*                                                                         *)
(* The route handlers, the two module-level repositories, the service      *)
(* factories and the error-to-HTTP mapping are those of                    *)
(* src/app/api/routes.py.  The services, the domain rules and the          *)
(* repositories' internals are not part of the available sources; they     *)
(* are modelled from spec.md (sections 3, 4 and 7).                        *)
(*                                                                         *)
(* Strings that are validated (names, titles) are sequences of one         *)
(* character strings, so that trimming is computed.  An Optional value is  *)
(* None (the empty tuple) or Some(v) (a one element tuple).                *)
(***************************************************************************)
EXTENDS Integers, Sequences, FiniteSets, TLC

VARIABLES project_repo, task_repo, request, result, response

vars == <<project_repo, task_repo, request, result, response>>

\* ------------------------------------------------------------------ bounds
\* Number of project ids, resp. task ids, one run may generate.
MaxProjects == 2
MaxTasks == 2

\* ----------------------------------------------------------------- helpers
None == <<>>
Some(v) == <<v>>

Whitespace == {" "}

RECURSIVE LStrip(_)
LStrip(s) ==
    IF s = <<>> THEN s
    ELSE IF Head(s) \in Whitespace THEN LStrip(Tail(s)) ELSE s

RECURSIVE RStrip(_)
RStrip(s) ==
    IF s = <<>> THEN s
    ELSE IF s[Len(s)] \in Whitespace THEN RStrip(SubSeq(s, 1, Len(s) - 1)) ELSE s

\* str.strip()
Strip(s) == RStrip(LStrip(s))

\* ------------------------------------------------------------ domain model
Statuses == {"Open", "InProgress", "Done", "Cancelled"}

TaskTypes == {"doc", "bug"}

\* The legal-transition table of the task status state machine.
LegalTransitions ==
    { <<"Open", "InProgress">>, <<"Open", "Cancelled">>,
      <<"InProgress", "Done">>, <<"InProgress", "Cancelled">> }

CanTransition_AllowReopen(current, requested) ==
    <<current, requested>> \in LegalTransitions \cup {<<"Done", "Open">>, <<"Cancelled", "Open">>}

CanTransition(current, requested) == <<current, requested>> \in LegalTransitions

\* Exception classes and their direct base class.
BaseClass ==
    [ NotFoundError |-> "DomainError",
      ValidationError |-> "DomainError",
      InvalidStatusTransition |-> "DomainError",
      DomainError |-> "Exception",
      ValueError |-> "Exception",
      TypeError |-> "Exception",
      Exception |-> "Exception" ]

RECURSIVE IsSubclass(_, _)
IsSubclass(cls, base) ==
    IF cls = base THEN TRUE
    ELSE IF cls = "Exception" THEN FALSE
    ELSE IsSubclass(BaseClass[cls], base)

\* An exception object: its class and the text str(e) gives.
Exc(cls, text) == [type |-> cls, text |-> text]

NoExc == [type |-> "None", text |-> <<>>]

\* isinstance(e, classes)
isinstance(e, classes) == \E c \in classes : IsSubclass(e.type, c)

\* ------------------------------------------------------------ repositories
\* A repository: its rows in insertion order and the number of ids issued.
EmptyRepo == [rows |-> <<>>, issued |-> 0]

ProjectId(n) == <<"p", n>>
TaskId(n) == <<"t", n>>

Ids(repo) == {repo.rows[i].id : i \in 1..Len(repo.rows)}

Find(repo, id) == CHOOSE r \in {repo.rows[i] : i \in 1..Len(repo.rows)} : r.id = id

RepoAdd(repo, row) == [rows |-> Append(repo.rows, row), issued |-> repo.issued + 1]

RepoDelete(repo, id) ==
    [repo EXCEPT !.rows = SelectSeq(repo.rows, LAMBDA r : r.id # id)]

RepoUpdate(repo, row) ==
    [repo EXCEPT !.rows = [i \in 1..Len(repo.rows) |->
                              IF repo.rows[i].id = row.id THEN row ELSE repo.rows[i]]]

\* ---------------------------------------------------------------- services
\* The outcome of a service call: the exception raised (NoExc when it
\* returned), the value returned, and the service (with the repositories
\* it holds) after the call.
Returns(svc, value) == [exc |-> NoExc, ret |-> value, svc |-> svc]

Raises(svc, cls, text) == [exc |-> Exc(cls, text), ret |-> None, svc |-> svc]

ProjectService_create(svc, name) ==
    IF Strip(name) = <<>>
    THEN Raises(svc, "ValidationError", <<"name", name>>)
    ELSE LET p == [id |-> ProjectId(svc.project_repo.issued + 1), name |-> name]
         IN Returns([svc EXCEPT !.project_repo = RepoAdd(@, p)], p)

ProjectService_list(svc) == Returns(svc, svc.project_repo.rows)

ProjectService_get(svc, project_id) ==
    IF project_id \notin Ids(svc.project_repo)
    THEN Raises(svc, "NotFoundError", <<"project", project_id>>)
    ELSE Returns(svc, Find(svc.project_repo, project_id))

NewTask_InProgress(id, project_id, title, task_type, due_date) ==
    [id |-> id, project_id |-> project_id, title |-> title,
     task_type |-> task_type, due_date |-> due_date, status |-> "InProgress"]

NewTask(id, project_id, title, task_type, due_date) ==
    [id |-> id, project_id |-> project_id, title |-> title,
     task_type |-> task_type, due_date |-> due_date, status |-> "Open"]

TaskService_create_task(svc, project_id, title, task_type, due_date) ==
    IF project_id \notin Ids(svc.project_repo)
    THEN Raises(svc, "NotFoundError", <<"project", project_id>>)
    ELSE IF Strip(title) = <<>>
    THEN Raises(svc, "ValidationError", <<"title", title>>)
    ELSE IF task_type \notin TaskTypes
    THEN Raises(svc, "ValidationError", <<"task_type", task_type>>)
    ELSE LET t == NewTask(TaskId(svc.task_repo.issued + 1), project_id, title,
                          task_type, due_date)
         IN Returns([svc EXCEPT !.task_repo = RepoAdd(@, t)], t)

TaskService_list_tasks(svc, project_id) ==
    IF project_id \notin Ids(svc.project_repo)
    THEN Raises(svc, "NotFoundError", <<"project", project_id>>)
    ELSE Returns(svc, SelectSeq(svc.task_repo.rows, LAMBDA t : t.project_id = project_id))

TaskService_delete_task(svc, task_id) ==
    IF task_id \notin Ids(svc.task_repo)
    THEN Raises(svc, "NotFoundError", <<"task", task_id>>)
    ELSE Returns([svc EXCEPT !.task_repo = RepoDelete(@, task_id)], None)

\* The task with the given fields of an update applied.
Patched(task, fields, title, due_date, status) ==
    [task EXCEPT !.title = IF "title" \in fields THEN title[1] ELSE @,
                 !.due_date = IF "due_date" \in fields THEN due_date ELSE @,
                 !.status = IF "status" \in fields THEN status[1] ELSE @]

\* The outcomes of update_task.  Each provided field is validated: a blank
\* title is a ValidationError, an illegal status change an
\* InvalidStatusTransition.  A field that is not provided, and a field that is
\* rejected, is never applied.  The order in which the fields are handled,
\* and whether a rejected call has already applied the accepted fields handled
\* before the rejected one, is left open: every order and both answers are
\* outcomes.
TaskService_update_task(svc, task_id, title, due_date, status) ==
    IF task_id \notin Ids(svc.task_repo)
    THEN {Raises(svc, "NotFoundError", <<"task", task_id>>)}
    ELSE LET old == Find(svc.task_repo, task_id)
             provided == {f \in {"title", "due_date", "status"} :
                             <<title, due_date, status>>[
                                 CASE f = "title" -> 1 [] f = "due_date" -> 2 [] OTHER -> 3]
                             # None}
             rejected == {f \in provided :
                             \/ f = "title" /\ Strip(title[1]) = <<>>
                             \/ f = "status" /\ ~CanTransition(old.status, status[1])}
             Error(f) == IF f = "title"
                         THEN Exc("ValidationError", <<"title", title[1]>>)
                         ELSE Exc("InvalidStatusTransition", <<old.status, status[1]>>)
             Stored(fields) ==
                 [svc EXCEPT !.task_repo =
                                RepoUpdate(@, Patched(old, fields, title, due_date, status))]
         IN IF rejected = {}
            THEN {Returns(Stored(provided), Patched(old, provided, title, due_date, status))}
            ELSE {[exc |-> Error(f), ret |-> None, svc |-> Stored(applied)] :
                     f \in rejected, applied \in SUBSET (provided \ rejected)}

\* ------------------------------------------------------------------- routes
\* The service factories: each request gets a service over the module-level
\* repositories.
get_project_service_FreshRepo == [project_repo |-> EmptyRepo]

get_project_service == [project_repo |-> project_repo]

get_task_service_FreshRepo == [project_repo |-> project_repo, task_repo |-> EmptyRepo]

get_task_service == [project_repo |-> project_repo, task_repo |-> task_repo]

\* HTTPException(status_code=..., <keyword>=text): the constructor takes
\* status_code, detail and headers; any other keyword is a TypeError.
HTTPException(status_code, keyword, text) ==
    IF keyword \in {"detail", "headers"}
    THEN [type |-> "HTTPException", status_code |-> status_code, detail |-> text]
    ELSE [type |-> "TypeError", status_code |-> 0, detail |-> <<"unexpected keyword", keyword>>]

InternalServerError == <<"Internal Server Error">>

\* to_http(e): the object the call evaluates to, or the exception it raises
\* while building it.  The function falls off its end (returns None) for an
\* exception that is no DomainError and no ValueError.
to_http(e) ==
    IF isinstance(e, {"NotFoundError"})
    THEN HTTPException(404, "details", e.text)
    ELSE IF isinstance(e, {"InvalidStatusTransition", "ValidationError", "ValueError"})
    THEN HTTPException(400, "details", e.text)
    ELSE IF isinstance(e, {"DomainError"})
    THEN HTTPException(500, "details", InternalServerError)
    ELSE [type |-> "NoneType", status_code |-> 0, detail |-> None]

\* raise to_http(e): what leaves the handler.  Raising None is a TypeError.
RaiseToHttp(e) ==
    LET x == to_http(e)
    IN IF x.type = "HTTPException" THEN x
       ELSE [type |-> "TypeError", status_code |-> 0, detail |-> x.detail]

\* The response the client gets: the handler's status code when it returns,
\* the HTTPException's when it raises one, and a plain 500 for any other
\* exception that leaves the handler.
Respond(exc, success_code) ==
    IF exc = NoExc THEN [status_code |-> success_code, detail |-> None]
    ELSE LET raised == RaiseToHttp(exc)
         IN IF raised.type = "HTTPException"
            THEN [status_code |-> raised.status_code, detail |-> raised.detail]
            ELSE [status_code |-> 500, detail |-> InternalServerError]

ProjectOut(p) == [id |-> p.id, name |-> p.name]

create_project_call(service, body) == ProjectService_create(service, body.name)

get_project_call(service, project_id) == ProjectService_get(service, project_id)

create_task_call_CheckBodyFirst(service, project_id, body) ==
    IF Strip(body.title) = <<>>
    THEN Raises(service, "ValueError", <<"title", body.title>>)
    ELSE TaskService_create_task(service, project_id, body.title, body.task_type,
                                 body.due_date)

create_task_call(service, project_id, body) ==
    TaskService_create_task(service, project_id, body.title, body.task_type, body.due_date)

list_project_tasks_call(service, project_id) == TaskService_list_tasks(service, project_id)

delete_task_call(service, task_id) == TaskService_delete_task(service, task_id)

update_task_call_DropStatus(service, task_id, body) ==
    TaskService_update_task(service, task_id, body.title, body.due_date, None)

update_task_call_ClearAbsent(service, task_id, body) ==
    TaskService_update_task(service, task_id, body.title,
                            IF body.due_date = None THEN Some("cleared") ELSE body.due_date,
                            body.status)

update_task_call(service, task_id, body) ==
    TaskService_update_task(service, task_id, body.title, body.due_date, body.status)

\* ------------------------------------------------------------------ inputs
Optional(S) == {None} \cup {Some(v) : v \in S}

ProjectIdInputs == {ProjectId(n) : n \in 0..MaxProjects}

TaskIdInputs == {TaskId(n) : n \in 0..MaxTasks}

\* The requests of one specification: the bodies and path parameters the
\* clients send.
Requests(names, project_ids, titles, task_types, due_dates, new_titles, new_due_dates, new_statuses) ==
    [ ProjectCreate |-> [name : names],
      TaskCreate |-> [title : titles, task_type : task_types, due_date : due_dates],
      TaskUpdate |-> [title : new_titles, due_date : new_due_dates, status : new_statuses],
      project_ids |-> project_ids,
      task_ids |-> TaskIdInputs ]

\* Projects and the task store: every name, every project, tasks that stay Open.
StoreRequests ==
    Requests({<<>>, <<" ">>, <<"A">>, <<" ", "B">>}, ProjectIdInputs,
             {<<" ">>, <<"X">>}, {"doc", "bogus"}, {None},
             {None}, {None}, {None, Some("Open")})

\* The status state machine: every requested status, in one project, titles
\* and due dates fixed.
StatusRequests ==
    Requests({<<" ">>, <<"A">>}, {ProjectId(0), ProjectId(1)},
             {<<"X">>}, {"doc", "bogus"}, {None},
             {None}, {None}, Optional(Statuses))

\* The fields of a task: titles, due dates and two statuses, in one project.
FieldRequests ==
    Requests({<<"A">>}, {ProjectId(1)},
             {<<"X">>}, {"bug"}, {None, Some("d1")},
             {None, Some(<<"Y", " ">>)}, {None, Some("d1")},
             {None, Some("InProgress")})

\* ----------------------------------------------------------------- actions
\* `request` records the route, its path parameter and, for update_task, the
\* fields of the body that are not None.
Provided(body) == {f \in {"title", "due_date", "status"} : body[f] # None}

Init ==
    /\ project_repo = EmptyRepo
    /\ task_repo = EmptyRepo
    /\ request = [op |-> "none", id |-> None, provided |-> {}]
    /\ result = [exc |-> NoExc, ret |-> None]
    /\ response = [status_code |-> 0, detail |-> None]

create_project(body) ==
    /\ request' = [op |-> "create_project", id |-> None, provided |-> {}]
    /\ LET out == create_project_call(get_project_service, body)
       IN /\ out.svc.project_repo.issued <= MaxProjects
          /\ project_repo' = out.svc.project_repo
          /\ result' = [exc |-> out.exc,
                        ret |-> IF out.exc = NoExc THEN ProjectOut(out.ret) ELSE None]
          /\ response' = Respond(out.exc, 201)
    /\ UNCHANGED task_repo

list_projects ==
    /\ request' = [op |-> "list_projects", id |-> None, provided |-> {}]
    /\ LET out == ProjectService_list(get_project_service)
       IN /\ project_repo' = out.svc.project_repo
          /\ result' = [exc |-> out.exc,
                        ret |-> [i \in 1..Len(out.ret) |-> ProjectOut(out.ret[i])]]
          /\ response' = Respond(out.exc, 200)
    /\ UNCHANGED task_repo

get_project(project_id) ==
    /\ request' = [op |-> "get_project", id |-> project_id, provided |-> {}]
    /\ LET out == get_project_call(get_project_service, project_id)
       IN /\ project_repo' = out.svc.project_repo
          /\ result' = [exc |-> out.exc,
                        ret |-> IF out.exc = NoExc THEN ProjectOut(out.ret) ELSE None]
          /\ response' = Respond(out.exc, 200)
    /\ UNCHANGED task_repo

\* The part the task handlers share: the service works on the module-level
\* repositories, the handler returns what the service returned.
TaskRoute(out, success_code) ==
    /\ project_repo' = out.svc.project_repo
    /\ task_repo' = out.svc.task_repo
    /\ result' = [exc |-> out.exc, ret |-> out.ret]
    /\ response' = Respond(out.exc, success_code)

create_task(project_id, body) ==
    /\ request' = [op |-> "create_task", id |-> project_id, provided |-> {}]
    /\ LET out == create_task_call(get_task_service, project_id, body)
       IN /\ out.svc.task_repo.issued <= MaxTasks
          /\ TaskRoute(out, 201)

list_project_tasks(project_id) ==
    /\ request' = [op |-> "list_project_tasks", id |-> project_id, provided |-> {}]
    /\ TaskRoute(list_project_tasks_call(get_task_service, project_id), 200)

delete_task(task_id) ==
    /\ request' = [op |-> "delete_task", id |-> task_id, provided |-> {}]
    /\ TaskRoute(delete_task_call(get_task_service, task_id), 204)

update_task(task_id, body) ==
    /\ request' = [op |-> "update_task", id |-> task_id, provided |-> Provided(body)]
    /\ \E out \in update_task_call(get_task_service, task_id, body) : TaskRoute(out, 200)

Next(R) ==
    \/ \E body \in R.ProjectCreate : create_project(body)
    \/ list_projects
    \/ \E project_id \in R.project_ids : get_project(project_id)
    \/ \E project_id \in R.project_ids, body \in R.TaskCreate : create_task(project_id, body)
    \/ \E project_id \in R.project_ids : list_project_tasks(project_id)
    \/ \E task_id \in R.task_ids : delete_task(task_id)
    \/ \E task_id \in R.task_ids, body \in R.TaskUpdate : update_task(task_id, body)

StoreNext == Next(StoreRequests)
StatusNext == Next(StatusRequests)
FieldNext == Next(FieldRequests)

SpecStore == Init /\ [][StoreNext]_vars
SpecStatus == Init /\ [][StatusNext]_vars
SpecFields == Init /\ [][FieldNext]_vars

\* ------------------------------------------------------------------ claims
Rows(repo) == {repo.rows[i] : i \in 1..Len(repo.rows)}

\* Task ids issued so far whose task is no longer stored: the deleted tasks.
Deleted(repo) == {TaskId(n) : n \in 1..repo.issued} \ Ids(repo)

Failed(res, cls) == res.exc.type = cls

\* C1: an update_task call that provides a status succeeds and sets the
\* task's status to the requested one exactly for the pairs Open->InProgress,
\* Open->Cancelled, InProgress->Done and InProgress->Cancelled; for every
\* other pair (a self-transition included) it fails with
\* InvalidStatusTransition and the status stays what it was.
C1_StatusTransitions ==
    [][(request'.op = "update_task" /\ request'.id \in Ids(task_repo)) =>
          \A body \in StatusRequests.TaskUpdate :
             (update_task(request'.id, body) /\ body.status # None) =>
                LET current == Find(task_repo, request'.id).status
                    requested == body.status[1]
                IN IF \/ current = "Open" /\ requested \in {"InProgress", "Cancelled"}
                      \/ current = "InProgress" /\ requested \in {"Done", "Cancelled"}
                   THEN /\ result'.exc = NoExc
                        /\ result'.ret.status = requested
                        /\ Find(task_repo', request'.id).status = requested
                   ELSE /\ Failed(result', "InvalidStatusTransition")
                        /\ result'.exc.text = <<current, requested>>
                        /\ Find(task_repo', request'.id).status = current]_vars

\* A transition out of Done was requested and rejected, after the task went
\* Open -> InProgress -> Done.
C1_Witness ==
    /\ request.op = "update_task"
    /\ Failed(result, "InvalidStatusTransition")
    /\ result.exc.text = <<"Done", "Open">>

\* C2: Done and Cancelled are absorbing: a stored task whose status is Done
\* or Cancelled keeps that status in the next state, whatever the request,
\* or is gone because that very task was deleted.
C2_TerminalAbsorbing ==
    [][\A t \in Rows(task_repo) :
          t.status \in {"Done", "Cancelled"} =>
             IF t.id \in Ids(task_repo')
             THEN Find(task_repo', t.id).status = t.status
             ELSE request'.op = "delete_task" /\ request'.id = t.id]_vars

\* A request to leave Cancelled was made and the task is still Cancelled.
C2_Witness ==
    /\ request.op = "update_task"
    /\ Failed(result, "InvalidStatusTransition")
    /\ result.exc.text[1] = "Cancelled"
    /\ Find(task_repo, request.id).status = "Cancelled"

\* C3: to_http maps NotFoundError to 404, ValidationError,
\* InvalidStatusTransition and ValueError to 400, and every other error to
\* a 500 with a generic message.
C3_ErrorMapping ==
    result.exc # NoExc =>
        IF result.exc.type = "NotFoundError" THEN response.status_code = 404
        ELSE IF result.exc.type \in {"ValidationError", "InvalidStatusTransition", "ValueError"}
        THEN response.status_code = 400
        ELSE response.status_code = 500 /\ response.detail = InternalServerError

\* C4: create_task with a project_id that names no existing project fails
\* with NotFoundError whatever the title and the task_type are, and leaves
\* the stored tasks unchanged.
C4_UnknownProject ==
    [][(request'.op = "create_task" /\ request'.id \notin Ids(project_repo)) =>
          /\ Failed(result', "NotFoundError")
          /\ result'.exc.text = <<"project", request'.id>>
          /\ task_repo' = task_repo
          /\ project_repo' = project_repo]_vars

\* create_task named a project that does not exist while another one does.
C4_Witness ==
    /\ request.op = "create_task"
    /\ Failed(result, "NotFoundError")
    /\ project_repo.rows # <<>>
    /\ request.id \notin Ids(project_repo)

\* C5: every create_task call that succeeds stores a new task whose status
\* is Open, and a task appears in the store only that way: no task is first
\* observed InProgress, Done or Cancelled.
C5_CreatedOpen ==
    [][/\ (request'.op = "create_task" /\ result'.exc = NoExc) =>
             /\ result'.ret.status = "Open"
             /\ result'.ret.id \notin Ids(task_repo)
             /\ result'.ret \in Rows(task_repo')
       /\ \A t \in Rows(task_repo') :
             t.id \notin Ids(task_repo) =>
                t.status = "Open" /\ request'.op = "create_task" /\ result'.ret = t]_vars

\* A task was created, as Open, after an earlier task had reached Done.
C5_Witness ==
    /\ request.op = "create_task"
    /\ result.exc = NoExc
    /\ result.ret.status = "Open"
    /\ \E t \in Rows(task_repo) : t.status = "Done"

\* C6: an update_task call leaves each of title, due_date and status that
\* it does not provide at its prior value (an absent due_date never clears a
\* stored one), and leaves the task's other fields and the other tasks alone.
C6_PartialUpdate ==
    [][(request'.op = "update_task" /\ request'.id \in Ids(task_repo)) =>
          /\ request'.id \in Ids(task_repo')
          /\ LET old == Find(task_repo, request'.id)
                 new == Find(task_repo', request'.id)
             IN /\ "title" \notin request'.provided => new.title = old.title
                /\ "due_date" \notin request'.provided => new.due_date = old.due_date
                /\ "status" \notin request'.provided => new.status = old.status
                /\ new.id = old.id
                /\ new.project_id = old.project_id
                /\ new.task_type = old.task_type
          /\ \A t \in Rows(task_repo) : t.id # request'.id => t \in Rows(task_repo')]_vars

\* An update changed the title of a task that has a due date and is
\* InProgress: both are still there.
C6_Witness ==
    /\ request.op = "update_task"
    /\ request.provided = {"title"}
    /\ result.exc = NoExc
    /\ result.ret.title = <<"Y", " ">>
    /\ result.ret.due_date = Some("d1")
    /\ result.ret.status = "InProgress"

\* C7: delete_task of a stored task succeeds and removes it and nothing
\* else; delete_task and update_task of an id that is not stored (deleted or
\* never created) fail with NotFoundError and change nothing; a deleted
\* task never comes back, and list_tasks never returns it.
C7_DeletePermanent ==
    [][/\ request'.op = "delete_task" =>
             IF request'.id \in Ids(task_repo)
             THEN /\ result'.exc = NoExc
                  /\ Rows(task_repo') = {t \in Rows(task_repo) : t.id # request'.id}
             ELSE /\ Failed(result', "NotFoundError")
                  /\ task_repo' = task_repo
       /\ (request'.op = "update_task" /\ request'.id \notin Ids(task_repo)) =>
             /\ Failed(result', "NotFoundError")
             /\ task_repo' = task_repo
       /\ Deleted(task_repo) \subseteq Deleted(task_repo')
       /\ (request'.op = "list_project_tasks" /\ result'.exc = NoExc) =>
             \A i \in 1..Len(result'.ret) : result'.ret[i].id \notin Deleted(task_repo)]_vars

\* The second delete of a task: the id was issued, is stored no more, and
\* the call failed with NotFoundError.
C7_Witness ==
    /\ request.op = "delete_task"
    /\ request.id \in Deleted(task_repo)
    /\ Failed(result, "NotFoundError")

\* C8: create with a name that is not blank returns a project with a
\* non-empty id that no earlier project has and with the name as given; the
\* stored projects never change afterwards; get returns the stored project
\* for an id create returned and fails with NotFoundError for any other id.
C8_ProjectCreateGet ==
    [][/\ \A body \in StoreRequests.ProjectCreate :
             (create_project(body) /\ \E i \in 1..Len(body.name) : body.name[i] # " ") =>
                /\ result'.exc = NoExc
                /\ result'.ret.id # <<>>
                /\ result'.ret.id \notin Ids(project_repo)
                /\ result'.ret.name = body.name
                /\ project_repo'.rows = Append(project_repo.rows, result'.ret)
       /\ Len(project_repo'.rows) >= Len(project_repo.rows)
       /\ \A i \in 1..Len(project_repo.rows) : project_repo'.rows[i] = project_repo.rows[i]
       /\ request'.op = "get_project" =>
             IF request'.id \in Ids(project_repo)
             THEN /\ result'.exc = NoExc
                  /\ result'.ret \in Rows(project_repo)
                  /\ result'.ret.id = request'.id
             ELSE Failed(result', "NotFoundError")]_vars

\* get returned the first project, whose name has a leading blank, after a
\* second project and a task were created.
C8_Witness ==
    /\ request.op = "get_project"
    /\ result.exc = NoExc
    /\ result.ret = [id |-> ProjectId(1), name |-> <<" ", "B">>]
    /\ Len(project_repo.rows) = 2
    /\ task_repo.issued > 0

\* C9: list_tasks fails with NotFoundError for a project that does not
\* exist; otherwise it returns the stored tasks of that project and no
\* other, each once, in the order they were created (an empty sequence when
\* the project has none), and changes nothing.
C9_ListTasks ==
    [][request'.op = "list_project_tasks" =>
          /\ task_repo' = task_repo
          /\ project_repo' = project_repo
          /\ IF request'.id \notin Ids(project_repo)
             THEN Failed(result', "NotFoundError")
             ELSE LET ret == result'.ret
                  IN /\ result'.exc = NoExc
                     /\ \A i \in 1..Len(ret) :
                           ret[i] \in Rows(task_repo) /\ ret[i].project_id = request'.id
                     /\ \A t \in Rows(task_repo) :
                           t.project_id = request'.id =>
                              Cardinality({i \in 1..Len(ret) : ret[i] = t}) = 1
                     /\ \A i, j \in 1..Len(ret) :
                           i < j => ret[i].id[2] < ret[j].id[2]]_vars

\* list_tasks returned two tasks of one project, in creation order.
C9_Witness ==
    /\ request.op = "list_project_tasks"
    /\ result.exc = NoExc
    /\ Len(result.ret) = 2

====
